---------------------------- MODULE Spec2Model ----------------------------
(***************************************************************************)
(* A model of the path tracer's driver, src/raytracer/src/main.rs:         *)
(*   hit_world  - closest hit over the list of spheres                     *)
(*   ray_color  - the recursive colour integration                         *)
(*   render     - the pixel loop writing the RGB8 buffer                   *)
(*   main       - argument check, render, write_image                      *)
(*                                                                         *)
(* Colours are f32 triples.  An f32 is the pair <<m, e>> standing for      *)
(* m * 2^e, with 2^23 <= |m| < 2^24 (normal), or |m| < 2^23 and e = -149   *)
(* (subnormal), or <<0, 0>>.  Products and sums are rounded to nearest,    *)
(* ties to even, as the hardware rounds them.                              *)
(*                                                                         *)
(* The library crate (Vec3, Ray, Sphere, Camera, the materials) is not     *)
(* part of main.rs; what the driver needs from it is modelled from the     *)
(* specification: Sphere::hit by the roots a ray has on each sphere,       *)
(* Material::scatter by its set of possible outcomes, unit_vector by the   *)
(* division by the length.                                                 *)
(***************************************************************************)
EXTENDS Integers, Sequences, FiniteSets, TLC

VARIABLES
    \* ---- ray_color (one top-level call and its recursion)
    world,          \* the &Vec<Sphere> argument
    ray,            \* the ray argument of the innermost call
    depth,          \* the depth argument of the innermost call
    stack,          \* pending frames: the albedo each waits to multiply by
    ret,            \* the colour returned by the call that just returned
    cpc,            \* "idle" | "call" | "return" | "done"
    ray0, depth0,   \* the arguments of the top-level call
    queries,        \* history: calls of hit_world made so far
    scatters,       \* history: calls of Material::scatter made so far
    path,           \* history: albedos of the scatters, in path order
    term,           \* history: how the path ended, and on which ray
    \* ---- hit_world (one call, iteration by iteration)
    hw,             \* the call's arguments: world, r, t_min, t_max
    idx,            \* index of the next sphere to visit
    closest_so_far,
    hit_record,
    hpc,            \* "idle" | "loop" | "done"
    \* ---- main and render
    args_len,       \* args.len()
    bounds,         \* (image_width, image_height)
    pixels,         \* the byte buffer
    written,        \* history: number of stores made to each byte
    mpc,            \* main's position
    camera,         \* the camera render built (None before)
    py, px, sample, \* render's loop counters
    uv,             \* the (u, v) of the latest get_ray call, as fractions
    ray_depth,      \* the depth render handed to its latest ray_color call
    render_calls, write_calls, usage_printed, exit_status

colorVars == <<world, ray, depth, stack, ret, cpc, ray0, depth0,
               queries, scatters, path, term>>
hitVars   == <<hw, idx, closest_so_far, hit_record, hpc>>
mainVars  == <<args_len, bounds, pixels, written, mpc, camera, py, px, sample,
               uv, ray_depth, render_calls, write_calls, usage_printed, exit_status>>
vars      == <<colorVars, hitVars, mainVars>>

\* Each function is run on its own: its steps leave the others' state alone.
OnlyColor == UNCHANGED <<hitVars, mainVars>>
OnlyHit   == UNCHANGED <<colorVars, mainVars>>
OnlyMain  == UNCHANGED <<colorVars, hitVars>>

None == <<>>          \* Option: None is <<>>, Some(x) is <<x>>
Some(x) == <<x>>
The(opt) == opt[1]

(***************************************************************************)
(* Bounds of the model.                                                    *)
(***************************************************************************)
MaxDepth == 2       \* ray_color is started with every depth in -1 .. MaxDepth
MaxWorld == 2       \* worlds hold at most MaxWorld spheres
MaxDim   == 3       \* render is run on every bounds in (1..MaxDim)^2
RandScale == 2      \* rng.gen::<f64>() draws from {0, 1/RandScale, ..} < 1

(***************************************************************************)
(* f32 arithmetic.                                                         *)
(***************************************************************************)
Abs(n) == IF n < 0 THEN -n ELSE n
Sgn(n) == IF n < 0 THEN -1 ELSE 1
Max(a, b) == IF a >= b THEN a ELSE b
P12 == 2^12
P22 == 2^22
P23 == 2^23
P24 == 2^24
Zero == <<0, 0>>

\* The arithmetic is written as functions: an argument is a value, worked
\* out once, before the body reads it.
F32T == Int \X Int

\* The number of bits of a (0 < a < 2^31).
BitLen[a \in Nat] == CHOOSE n \in 1 .. 31 : 2^(n - 1) <= a /\ (n = 31 \/ a < 2^n)

\* q * 2^e, q the mantissa after rounding: 2^24 is renormalised, 0 is zero.
Renormal[sign \in Int, q \in Nat, e \in Int] ==
    IF q = 0 THEN Zero
    ELSE IF q = P24 THEN <<sign * P23, e + 1>>
    ELSE <<sign * q, e>>

\* m * 2^e with the k > 0 lowest bits of m rounded away (ties to even).
RoundAway[m \in Int, e \in Int, k \in Nat] ==
    LET q    == Abs(m) \div 2^k
        r    == Abs(m) % 2^k
        half == 2^(k - 1)
    IN  Renormal[Sgn(m),
                 IF r > half \/ (r = half /\ q % 2 = 1) THEN q + 1 ELSE q,
                 e + k]

\* F32Round for a nonzero m of n bits.
RoundBits[m \in Int, e \in Int, n \in Nat] ==
    IF n < 24 /\ e > -149
    THEN \* exact: shift up, as far as the exponent allows
         IF 24 - n <= e + 149
         THEN <<m * 2^(24 - n), e - (24 - n)>>
         ELSE <<m * 2^(e + 149), -149>>
    ELSE IF Max(n - 24, -149 - e) <= 0 THEN <<m, e>>
    ELSE IF Max(n - 24, -149 - e) >= 29 THEN Zero
    ELSE RoundAway[m, e, Max(n - 24, -149 - e)]

\* The f32 nearest to m * 2^e (ties to even), |m| < 2^28.  The lowest bit
\* of m may be a sticky bit; it is then among the bits rounded away, below
\* the half bit.  Results below 2^-126 are subnormal: their exponent stays
\* at -149.
F32Round[m \in Int, e \in Int] ==
    IF m = 0 THEN Zero ELSE RoundBits[m, e, BitLen[Abs(m)]]

\* The mantissa of a nonzero f32 brought to 24 bits (a subnormal's too),
\* s the number of bits it lacks.
ExpandBy[a \in F32T, s \in Int] == <<a[1] * 2^s, a[2] - s>>
Expand[a \in F32T] == ExpandBy[a, 24 - BitLen[Abs(a[1])]]

\* hi * 2^24 + lo, a 48-bit product, cut to 27 bits: its low 21 bits are
\* kept as a sticky bit.
CutProduct[hi \in Nat, lo \in Nat] ==
    (hi * 4 + (lo \div P22)) * 2 + (IF lo % P22 # 0 THEN 1 ELSE 0)

\* The 48-bit product from its partial products: hh * 2^24 + mid * 2^12 + ll.
SumProduct[hh \in Nat, mid \in Nat, ll \in Nat] ==
    CutProduct[hh + (mid \div P12) + (((mid % P12) * P12 + ll) \div P24),
               ((mid % P12) * P12 + ll) % P24]

\* The product of two 24-bit mantissas x, y, cut to 27 bits: formed from
\* their 12-bit halves.
MulMantissa[x \in Nat, y \in Nat] ==
    SumProduct[(x \div P12) * (y \div P12),
               (x \div P12) * (y % P12) + (x % P12) * (y \div P12),
               (x % P12) * (y % P12)]

\* The product of two nonzero f32 with 24-bit mantissas.
MulExpanded[a \in F32T, b \in F32T] ==
    F32Round[Sgn(a[1]) * Sgn(b[1]) * MulMantissa[Abs(a[1]), Abs(b[1])],
             a[2] + b[2] + 21]

\* a * b in f32.
F32Mul[a \in F32T, b \in F32T] ==
    IF a[1] = 0 \/ b[1] = 0 THEN Zero
    ELSE MulExpanded[Expand[a], Expand[b]]

\* The smaller operand of a sum, brought to the exponent of the larger one
\* less 3 (d: the difference of the exponents): three extra bits, the last
\* one sticky.
AlignSmaller[m \in Int, d \in Nat] ==
    IF d <= 3 THEN m * 2^(3 - d)
    ELSE IF d >= 28 THEN Sgn(m)
    ELSE LET q == Abs(m) \div 2^(d - 3)
             r == Abs(m) % 2^(d - 3)
         IN  Sgn(m) * (q + (IF r # 0 /\ q % 2 = 0 THEN 1 ELSE 0))

\* a + b in f32.
F32Add[a \in F32T, b \in F32T] ==
    IF a[1] = 0 THEN b
    ELSE IF b[1] = 0 THEN a
    ELSE IF a[2] >= b[2]
         THEN F32Round[a[1] * 8 + AlignSmaller[b[1], a[2] - b[2]], a[2] - 3]
         ELSE F32Round[b[1] * 8 + AlignSmaller[a[1], b[2] - a[2]], b[2] - 3]

F32Neg(a) == <<-a[1], a[2]>>
F32Sub(a, b) == F32Add[a, F32Neg(b)]

\* The f32 nearest to n / d (0 < d <= 20, |n| <= d): a decimal literal, or
\* an f64 quotient of small integers cast to f32.  k is the least shift
\* with n * 2^k >= d * 2^25.
F32FromRatio(n, d) ==
    IF n = 0 THEN Zero
    ELSE LET a == Abs(n)
             k == CHOOSE i \in 0 .. 30 :
                     /\ a * 2^i >= d * P24 * 2
                     /\ (i = 0 \/ a * 2^(i - 1) < d * P24 * 2)
             q == (a * 2^k) \div d
             r == (a * 2^k) % d
         IN  F32Round[Sgn(n) * (q * 2 + (IF r # 0 THEN 1 ELSE 0)), -k - 1]

One  == F32FromRatio(1, 1)
Half == F32FromRatio(1, 2)

(***************************************************************************)
(* Colours (Srgb of f32).                                                  *)
(***************************************************************************)
Srgb(r, g, b) == <<r, g, b>>
Black == Srgb(Zero, Zero, Zero)
\* Srgb::new(n1/10, n2/10, n3/10) of decimal literals
SrgbTenths(r, g, b) ==
    Srgb(F32FromRatio(r, 10), F32FromRatio(g, 10), F32FromRatio(b, 10))

(***************************************************************************)
(* The scene render builds.                                                *)
(***************************************************************************)
Lambertian(albedo) == [kind |-> "Lambertian", albedo |-> albedo]
Metal(albedo)      == [kind |-> "Metal", albedo |-> albedo]
Glass              == [kind |-> "Glass", albedo |-> Srgb(One, One, One)]

material_ground == Lambertian(SrgbTenths(8, 8, 0))
material_center == Lambertian(SrgbTenths(1, 2, 5))
material_left   == Glass
material_right  == Metal(SrgbTenths(8, 6, 2))

\* world.push(..), in order: left, center, right, ground
Scene == << [id |-> 1, material |-> material_left],
            [id |-> 2, material |-> material_center],
            [id |-> 3, material |-> material_right],
            [id |-> 4, material |-> material_ground] >>

SceneIds == 1 .. Len(Scene)

NoRep(w) == \A i, j \in 1 .. Len(w) : i # j => w[i] # w[j]

RECURSIVE SeqsNoRep(_, _)
\* The sequences without repetition of at most n elements of S.
SeqsNoRep(S, n) ==
    IF n = 0 THEN { <<>> }
    ELSE LET shorter == SeqsNoRep(S, n - 1)
             longer  == { Append(w, s) : w \in shorter, s \in S }
         IN  shorter \cup { w \in longer : NoRep(w) }

\* Worlds: any selection of the scene's spheres, in any order.
Worlds == { [i \in 1 .. Len(w) |-> Scene[w[i]]] : w \in SeqsNoRep(SceneIds, MaxWorld) }

\* The worlds that keep the scene's order (hit_world is run on every order;
\* ray_color sees the order only through hit_world).
WorldsInOrder ==
    { w \in Worlds : \A i, j \in 1 .. Len(w) : i < j => w[i].id < w[j].id }

Ids(w) == { w[i].id : i \in 1 .. Len(w) }

(***************************************************************************)
(* Rays.  A ray is its direction and, for each sphere of the world, the    *)
(* real roots of the ray/sphere quadratic (None: negative discriminant),   *)
(* in units of 0.001.                                                      *)
(***************************************************************************)
T_MIN   == 1          \* 0.001
F64_MAX == 1000000    \* stands for std::f64::MAX: above every root

Directions == { <<1, 0, 0>>, <<0, 1, 0>>, <<0, -1, 0>>, <<3, 4, 0>> }

RootsColor == { None, <<0, 3>> }
RootsHit   == { None, <<0, 2>>, <<2, 3>>, <<1, 4>>, <<3, 5>> }

RaysOf(w, rootSet) == [dir : Directions, roots : [Ids(w) -> rootSet]]

RECURSIVE Isqrt(_, _)
Isqrt(n, k) == IF k * k >= n THEN k ELSE Isqrt(n, k + 1)

\* ray.direction.unit_vector().y() as f32
UnitY(dir) ==
    F32FromRatio(dir[2], Isqrt(dir[1] * dir[1] + dir[2] * dir[2] + dir[3] * dir[3], 0))

(***************************************************************************)
(* Sphere::hit: the first root, in the order smaller then larger, strictly *)
(* inside (t_min, t_max).                                                  *)
(***************************************************************************)
SphereHit(sphere, r, t_min, t_max) ==
    LET roots == r.roots[sphere.id]
    IN  IF roots = None THEN None
        ELSE IF t_min < roots[1] /\ roots[1] < t_max
             THEN Some([t |-> roots[1], sphere |-> sphere.id, material |-> sphere.material])
        ELSE IF t_min < roots[2] /\ roots[2] < t_max
             THEN Some([t |-> roots[2], sphere |-> sphere.id, material |-> sphere.material])
        ELSE None

(***************************************************************************)
(* hit_world.                                                              *)
(***************************************************************************)
\* slip: every sphere is queried with the caller's t_max
HitBoundTMax(t_max, closest) == t_max

\* The upper bound handed to sphere.hit.
HitBound(t_max, closest) == closest

\* One iteration of the for loop: the new <<closest_so_far, hit_record>>.
HitIter(sphere, r, t_min, t_max, closest, rec) ==
    LET hit == SphereHit(sphere, r, t_min, HitBound(t_max, closest))
    IN  IF hit # None THEN <<The(hit).t, hit>> ELSE <<closest, rec>>

RECURSIVE HitLoop(_, _, _, _, _, _, _)
HitLoop(w, r, t_min, t_max, i, closest, rec) ==
    IF i > Len(w) THEN rec
    ELSE LET st == HitIter(w[i], r, t_min, t_max, closest, rec)
         IN  HitLoop(w, r, t_min, t_max, i + 1, st[1], st[2])

hit_world(w, r, t_min, t_max) == HitLoop(w, r, t_min, t_max, 1, t_max, None)

(***************************************************************************)
(* ray_color.                                                              *)
(***************************************************************************)
RenderDepth == 50         \* ray_color(&r, &world, 50)

\* slips of the depth test: `depth <= 1`, `depth < 0`
DepthExhaustedAtOne(d) == d <= 1
DepthExhaustedBelowZero(d) == d < 0

\* if depth <= 0 { return black }
DepthExhausted(d) == d <= 0

\* slip: the recursive call is handed `depth`
NextDepthSame(d) == d

\* the depth handed to the recursive call
NextDepth(d) == d - 1

\* let t: f32 = 0.5 * (ray.direction.unit_vector().y() as f32 + 1.0);
SkyT(dir) == F32Mul[Half, F32Add[UnitY(dir), One]]

\* Srgb::new((1.0 - t) * 1.0 + t * 0.5, .. + t * 0.7, .. + t * 1.0)
SkyColor(dir) ==
    LET t == SkyT(dir)
        Channel(c) == F32Add[F32Mul[F32Sub(One, t), One], F32Mul[t, c]]
    IN  Srgb(Channel(F32FromRatio(5, 10)),
             Channel(F32FromRatio(7, 10)),
             Channel(F32FromRatio(10, 10)))

\* The function f as the table of its values (f @@ <<>> equals f).
Tabulated(f) == f @@ <<>>

\* SkyColor, computed once for each direction of the model
SkyTable == Tabulated([dir \in Directions |-> SkyColor(dir)])

\* The None arm of `match hit`: the sky gradient.
SkyGradient(r) == SkyTable[r.dir]

\* slip: every channel multiplied by albedo.red
AttenuateByRed(albedo, target) ==
    Srgb(F32Mul[albedo[1], target[1]],
         F32Mul[albedo[1], target[2]],
         F32Mul[albedo[1], target[3]])

\* Srgb::new(albedo.red * target.red, albedo.green * .., albedo.blue * ..)
Attenuate(albedo, target) ==
    Srgb(F32Mul[albedo[1], target[1]],
         F32Mul[albedo[2], target[2]],
         F32Mul[albedo[3], target[3]])

\* What the scatter-None arm returns.
Absorbed == Black

\* Material::scatter returning None: Lambertian and Glass always scatter,
\* Metal scatters or absorbs.
ScatterNone(material) == material.kind = "Metal"

\* Material::scatter returning Some((scattered, albedo)): the albedo is the
\* material's; the scattered ray depends on random draws, it is any ray.
ScatterSome(material, w) ==
    [ray : RaysOf(w, RootsColor), albedo : { material.albedo }]

\* hit_world(world, ray, 0.001, f64::MAX), computed once for each world and
\* ray of the model
HitTable ==
    Tabulated([w \in WorldsInOrder |->
        Tabulated([r \in RaysOf(w, RootsColor) |->
                      hit_world(w, r, T_MIN, F64_MAX)])])

ColorHit == HitTable[world][ray]

ColorHistory == <<ray0, depth0, world>>

\* depth <= 0: black, before anything else
RcExhausted ==
    /\ cpc = "call"
    /\ DepthExhausted(depth)
    /\ ret' = Black
    /\ cpc' = "return"
    /\ term' = [kind |-> "exhausted", ray |-> ray]
    /\ UNCHANGED <<ColorHistory, ray, depth, stack, queries, scatters, path>>
    /\ OnlyColor

\* no sphere is hit: the sky gradient
RcMiss ==
    /\ cpc = "call"
    /\ ~DepthExhausted(depth)
    /\ ColorHit = None
    /\ queries' = queries + 1
    /\ ret' = SkyGradient(ray)
    /\ cpc' = "return"
    /\ term' = [kind |-> "miss", ray |-> ray]
    /\ UNCHANGED <<ColorHistory, ray, depth, stack, scatters, path>>
    /\ OnlyColor

\* a sphere is hit and its material absorbs the ray
RcAbsorbed ==
    /\ cpc = "call"
    /\ ~DepthExhausted(depth)
    /\ ColorHit # None
    /\ ScatterNone(The(ColorHit).material)
    /\ queries' = queries + 1
    /\ scatters' = scatters + 1
    /\ ret' = Absorbed
    /\ cpc' = "return"
    /\ term' = [kind |-> "absorbed", ray |-> ray]
    /\ UNCHANGED <<ColorHistory, ray, depth, stack, path>>
    /\ OnlyColor

\* a sphere is hit and its material scatters: the recursive call
RcScattered ==
    /\ cpc = "call"
    /\ ~DepthExhausted(depth)
    /\ ColorHit # None
    /\ \E sc \in ScatterSome(The(ColorHit).material, world) :
          /\ stack' = Append(stack, sc.albedo)
          /\ path' = Append(path, sc.albedo)
          /\ ray' = sc.ray
    /\ depth' = NextDepth(depth)
    /\ queries' = queries + 1
    /\ scatters' = scatters + 1
    /\ UNCHANGED <<ColorHistory, cpc, ret, term>>
    /\ OnlyColor

\* the recursive call returned: multiply by the albedo and return
RcReturn ==
    /\ cpc = "return"
    /\ stack # <<>>
    /\ ret' = Attenuate(stack[Len(stack)], ret)
    /\ stack' = SubSeq(stack, 1, Len(stack) - 1)
    /\ UNCHANGED <<ColorHistory, ray, depth, cpc, queries, scatters, path, term>>
    /\ OnlyColor

\* the top-level call returned
RcDone ==
    /\ cpc = "return"
    /\ stack = <<>>
    /\ cpc' = "done"
    /\ UNCHANGED <<ColorHistory, ray, depth, stack, ret, queries, scatters, path, term>>
    /\ OnlyColor

ColorIdle ==
    /\ world = <<>> /\ ray = None /\ depth = 0 /\ stack = <<>> /\ ret = None
    /\ cpc = "idle" /\ ray0 = None /\ depth0 = 0 /\ queries = 0
    /\ scatters = 0 /\ path = <<>> /\ term = [kind |-> "idle", ray |-> None]

\* A call ray_color(ray0, world, depth0).  The depth render passes is run on
\* the worlds of at most one sphere, where the pending albedos are determined
\* by their number.
ColorStart ==
    /\ world \in WorldsInOrder
    /\ ray0 \in RaysOf(world, RootsColor)
    /\ depth0 \in (-1 .. MaxDepth) \cup { RenderDepth }
    /\ depth0 > MaxDepth => Len(world) <= 1
    /\ ray = ray0 /\ depth = depth0
    /\ stack = <<>> /\ ret = None /\ cpc = "call"
    /\ queries = 0 /\ scatters = 0 /\ path = <<>>
    /\ term = [kind |-> "running", ray |-> ray0]

(***************************************************************************)
(* hit_world, iteration by iteration.                                      *)
(***************************************************************************)
HitRanges == { <<T_MIN, F64_MAX>>, <<T_MIN, 4>>, <<2, F64_MAX>>, <<2, 4>> }

HitIdle ==
    /\ hw = None /\ idx = 0 /\ closest_so_far = 0 /\ hit_record = None
    /\ hpc = "idle"

HitStart ==
    /\ \E w \in Worlds, rg \in HitRanges :
          \E r \in RaysOf(w, RootsHit) :
             hw = [world |-> w, r |-> r, t_min |-> rg[1], t_max |-> rg[2]]
    /\ idx = 0 /\ closest_so_far = 0 /\ hit_record = None
    /\ hpc = "call"

\* let mut closest_so_far = t_max; let mut hit_record = None;
HwEnter ==
    /\ hpc = "call"
    /\ closest_so_far' = hw.t_max
    /\ hit_record' = None
    /\ idx' = 1
    /\ hpc' = "loop"
    /\ UNCHANGED hw
    /\ OnlyHit

\* one iteration of `for sphere in world`
HwVisit ==
    /\ hpc = "loop"
    /\ idx <= Len(hw.world)
    /\ LET st == HitIter(hw.world[idx], hw.r, hw.t_min, hw.t_max,
                         closest_so_far, hit_record)
       IN  /\ closest_so_far' = st[1]
           /\ hit_record' = st[2]
    /\ idx' = idx + 1
    /\ UNCHANGED <<hw, hpc>>
    /\ OnlyHit

\* the loop is over: hit_record is returned
HwReturn ==
    /\ hpc = "loop"
    /\ idx > Len(hw.world)
    /\ hpc' = "done"
    /\ UNCHANGED <<hw, idx, closest_so_far, hit_record>>
    /\ OnlyHit


(***************************************************************************)
(* render and main.  main renders 800 x 600; the model runs the same code  *)
(* on every bounds up to MaxDim x MaxDim.  A sample's colour is not        *)
(* computed here: a stored byte is named by the pixel and channel it       *)
(* quantises.  Lengths (viewport, focal length) are in tenths.             *)
(***************************************************************************)
SamplesPerPixel == 6

Dims == (1 .. MaxDim) \X (1 .. MaxDim)

BufLen(bnds) == bnds[1] * bnds[2] * 3

\* slip: the aspect ratio taken from the bounds, still an integer division
ViewportWidthByBounds(bnds) == (bnds[1] \div bnds[2]) * 25

\* (800 / 600) as f64 * 2.5: the division is of two integers
ViewportWidth(bnds) == (800 \div 600) * 25

\* Camera::new(Point3D::new(0,0,0), 2.0, (800/600) as f64 * 2.5, 1.0)
NewCamera(bnds) ==
    [origin |-> <<0, 0, 0>>, viewport_height |-> 20,
     viewport_width |-> ViewportWidth(bnds), focal_length |-> 10]

\* u = (x + rand) / (width - 1), as numerator and denominator, both
\* scaled by RandScale
CoordU(x, ru, bnds) == <<x * RandScale + ru, (bnds[1] - 1) * RandScale>>

\* v = (height - (y + rand)) / (height - 1)
CoordV(y, rv, bnds) ==
    <<bnds[2] * RandScale - (y * RandScale + rv), (bnds[2] - 1) * RandScale>>

\* slips of the index: the row stride taken from the height; column-major
PixelIndexByHeight(x, y, bnds) == y * bnds[2] + x
PixelIndexColumnMajor(x, y, bnds) == x * bnds[2] + y

\* let i = y * bounds.0 + x
PixelIndex(x, y, bnds) == y * bnds[1] + x

\* color.into_format().into_raw(): the [u8; 3] of pixel (x, y), R, G, B
RawPixel(x, y) ==
    [k \in 0 .. 2 |-> [x |-> x, y |-> y, channel |-> <<"R", "G", "B">>[k + 1]]]

\* pixels[i * 3 + k] = pixel[k]
StoreOffset(i, k) == i * 3 + k

MainIdle ==
    /\ args_len = 0 /\ bounds = <<0, 0>> /\ pixels = <<>> /\ written = <<>>
    /\ mpc = "idle" /\ camera = None /\ py = 0 /\ px = 0 /\ sample = 0
    /\ uv = None /\ ray_depth = 0 /\ render_calls = 0 /\ write_calls = 0
    /\ usage_printed = FALSE /\ exit_status = None

MainStart ==
    /\ args_len \in 0 .. 3
    /\ bounds \in Dims
    /\ pixels = <<>> /\ written = <<>>
    /\ mpc = "start" /\ camera = None /\ py = 0 /\ px = 0 /\ sample = 0
    /\ uv = None /\ ray_depth = 0 /\ render_calls = 0 /\ write_calls = 0
    /\ usage_printed = FALSE /\ exit_status = None

renderVars == <<camera, py, px, sample, uv, ray_depth>>

\* let mut pixels = vec![0; w * h * 3]; println!(..); if args.len() != 2 ..
MainCheckArgs ==
    /\ mpc = "start"
    /\ pixels' = [b \in 0 .. BufLen(bounds) - 1 |-> 0]
    /\ written' = [b \in 0 .. BufLen(bounds) - 1 |-> 0]
    /\ mpc' = IF args_len # 2 THEN "usage" ELSE "render"
    /\ UNCHANGED <<args_len, bounds, renderVars, render_calls, write_calls,
                   usage_printed, exit_status>>
    /\ OnlyMain

\* println!("Usage: {} <output_file>", args[0]); return;
MainUsage ==
    /\ mpc = "usage"
    /\ args_len >= 1
    /\ usage_printed' = TRUE
    /\ exit_status' = Some(0)
    /\ mpc' = "exited"
    /\ UNCHANGED <<args_len, bounds, pixels, written, renderVars,
                   render_calls, write_calls>>
    /\ OnlyMain

\* args[0] on an empty vector: index out of bounds, the process panics
MainUsagePanic ==
    /\ mpc = "usage"
    /\ args_len = 0
    /\ exit_status' = Some(101)
    /\ mpc' = "panic_usage"
    /\ UNCHANGED <<args_len, bounds, pixels, written, renderVars,
                   render_calls, write_calls, usage_printed>>
    /\ OnlyMain

\* render's entry: the assertion, the camera, the scene, the generator
RenderEnter ==
    /\ mpc = "render"
    /\ render_calls' = render_calls + 1
    /\ IF Cardinality(DOMAIN pixels) = BufLen(bounds)
       THEN /\ camera' = Some(NewCamera(bounds))
            /\ mpc' = "pixel"
            /\ exit_status' = exit_status
       ELSE /\ camera' = camera
            /\ mpc' = "panic_assert"
            /\ exit_status' = Some(101)
    /\ py' = 0 /\ px' = 0 /\ sample' = 0
    /\ UNCHANGED <<args_len, bounds, pixels, written, uv, ray_depth, write_calls,
                   usage_printed>>
    /\ OnlyMain

\* one iteration of `for _s in 0..samples_per_pixel`
RenderSample ==
    /\ mpc = "pixel"
    /\ py < bounds[2]
    /\ sample < SamplesPerPixel
    /\ \E ru, rv \in 0 .. RandScale - 1 :
          uv' = Some([u |-> CoordU(px, ru, bounds), v |-> CoordV(py, rv, bounds)])
    /\ ray_depth' = RenderDepth
    /\ sample' = sample + 1
    /\ UNCHANGED <<args_len, bounds, pixels, written, mpc, camera, py, px,
                   render_calls, write_calls, usage_printed, exit_status>>
    /\ OnlyMain

\* the samples of pixel (px, py) are summed: its three bytes are stored,
\* and the loops move on
RenderStore ==
    /\ mpc = "pixel"
    /\ py < bounds[2]
    /\ sample = SamplesPerPixel
    /\ LET i   == PixelIndex(px, py, bounds)
           raw == RawPixel(px, py)
           at  == { StoreOffset(i, k) : k \in 0 .. 2 }
       IN  IF at \subseteq DOMAIN pixels
           THEN /\ pixels' = [b \in DOMAIN pixels |->
                                IF \E k \in 0 .. 2 : b = StoreOffset(i, k)
                                THEN raw[CHOOSE k \in 0 .. 2 : b = StoreOffset(i, k)]
                                ELSE pixels[b]]
                /\ written' = [b \in DOMAIN written |->
                                 written[b] + Cardinality({ k \in 0 .. 2 : b = StoreOffset(i, k) })]
                /\ mpc' = "pixel"
                /\ exit_status' = exit_status
                /\ IF px + 1 < bounds[1]
                   THEN px' = px + 1 /\ py' = py
                   ELSE px' = 0 /\ py' = py + 1
                /\ sample' = 0
           ELSE \* a store outside the slice panics
                /\ mpc' = "panic_store"
                /\ exit_status' = Some(101)
                /\ UNCHANGED <<pixels, written, px, py, sample>>
    /\ UNCHANGED <<args_len, bounds, camera, uv, ray_depth, render_calls,
                   write_calls, usage_printed>>
    /\ OnlyMain

\* the row loop is over: render returns to main
RenderReturn ==
    /\ mpc = "pixel"
    /\ py >= bounds[2]
    /\ mpc' = "write"
    /\ UNCHANGED <<args_len, bounds, pixels, written, renderVars,
                   render_calls, write_calls, usage_printed, exit_status>>
    /\ OnlyMain

\* write_image(..).expect("error writing image")
MainWriteImage ==
    /\ mpc = "write"
    /\ write_calls' = write_calls + 1
    /\ \E ok \in BOOLEAN :
          IF ok THEN exit_status' = Some(0) /\ mpc' = "exited"
                ELSE exit_status' = Some(101) /\ mpc' = "panic_write"
    /\ UNCHANGED <<args_len, bounds, pixels, written, renderVars,
                   render_calls, usage_printed>>
    /\ OnlyMain

(***************************************************************************)
(* Specifications.                                                         *)
(***************************************************************************)
InitColor == ColorStart /\ HitIdle /\ MainIdle
NextColor ==
    \/ RcExhausted \/ RcMiss \/ RcAbsorbed \/ RcScattered
    \/ RcReturn \/ RcDone
SpecColor == InitColor /\ [][NextColor]_vars
\* ray_color runs without waiting: a step that can be taken is taken
SpecColorFair == SpecColor /\ WF_vars(NextColor)

InitHit == HitStart /\ ColorIdle /\ MainIdle
NextHit == HwEnter \/ HwVisit \/ HwReturn
SpecHit == InitHit /\ [][NextHit]_vars

InitMain == MainStart /\ ColorIdle /\ HitIdle
NextMain ==
    \/ MainCheckArgs \/ MainUsage \/ MainUsagePanic \/ RenderEnter
    \/ RenderSample \/ RenderStore \/ RenderReturn \/ MainWriteImage
SpecMain == InitMain /\ [][NextMain]_vars


(***************************************************************************)
(* Properties of ray_color (checked under SpecColor and SpecColorFair).    *)
(***************************************************************************)
\* (1-t)*(1,1,1) + t*(0.5,0.7,1.0), t = 0.5*(unit(direction).y + 1), in f32
Gradient(dir) ==
    LET t == F32Mul[Half, F32Add[UnitY(dir), One]]
        Lerp(white, blue) == F32Add[F32Mul[F32Sub(One, t), white], F32Mul[t, blue]]
    IN  <<Lerp(One, Half), Lerp(One, F32FromRatio(7, 10)), Lerp(One, One)>>

\* Srgb::new(r/20, g/20, b/20): 0.75 is 15/20, 0.85 is 17/20, 0.7 is 14/20
SrgbTwentieths(r, g, b) ==
    Srgb(F32FromRatio(r, 20), F32FromRatio(g, 20), F32FromRatio(b, 20))

\* C1: in an empty world, ray_color with any depth >= 1 returns the sky
\* gradient of the ray's direction, whatever the depth; direction (1,0,0)
\* gives (0.75, 0.85, 1.0), (0,1,0) gives (0.5, 0.7, 1.0) and (0,-1,0)
\* gives (1, 1, 1).
ThmC1 ==
    (cpc = "done" /\ world = <<>> /\ depth0 >= 1) =>
        /\ ret = Gradient(ray0.dir)
        /\ ray0.dir = <<1, 0, 0>>  => ret = SrgbTwentieths(15, 17, 20)
        /\ ray0.dir = <<0, 1, 0>>  => ret = SrgbTwentieths(10, 14, 20)
        /\ ray0.dir = <<0, -1, 0>> => ret = SrgbTwentieths(20, 20, 20)

\* the test's case: the ray toward (1,0,0), empty world, depth 2
WitC1 ==
    /\ cpc = "done" /\ world = <<>> /\ depth0 = 2
    /\ ray0.dir = <<1, 0, 0>>
    /\ ret = SrgbTwentieths(15, 17, 20)

\* C2: with depth <= 0, ray_color returns black without querying the world
\* and without calling scatter, whatever the ray and the world.
ThmC2 ==
    (cpc # "idle" /\ depth0 <= 0) =>
        /\ queries = 0
        /\ scatters = 0
        /\ cpc = "done" => ret = Black

\* depth 0 and a ray that intersects a sphere of the world
WitC2 ==
    /\ cpc = "done" /\ depth0 = 0
    /\ hit_world(world, ray0, T_MIN, F64_MAX) # None
    /\ ret = Black

\* The colour the path ended on: black when the depth ran out or the ray was
\* absorbed, the sky gradient of the last ray when it missed every sphere.
TerminalColor ==
    IF term.kind = "miss" THEN Gradient(term.ray.dir) ELSE Black

RECURSIVE Accumulate(_, _, _)
\* for albedo in albedos[i..] { attenuation = attenuation (*) albedo }
Accumulate(albedos, i, attenuation) ==
    IF i > Len(albedos) THEN attenuation
    ELSE Accumulate(albedos, i + 1, Attenuate(attenuation, albedos[i]))

\* The iterative form: follow the scattered rays in a loop, multiplying the
\* albedos into an accumulated attenuation, then multiply by the terminal
\* colour.
IterativeColor(albedos, terminal) ==
    Attenuate(Accumulate(albedos, 1, Srgb(One, One, One)), terminal)

RECURSIVE BackwardColor(_, _, _)
\* The albedos applied to the terminal colour from the last scatter back to
\* the first: a1 (*) (a2 (*) (.. (an (*) terminal))).
BackwardColor(albedos, i, terminal) ==
    IF i > Len(albedos) THEN terminal
    ELSE LET inner == BackwardColor(albedos, i + 1, terminal)
         IN  Srgb(F32Mul[albedos[i][1], inner[1]],
                  F32Mul[albedos[i][2], inner[2]],
                  F32Mul[albedos[i][3], inner[3]])

\* C7 as stated: ray_color returns the colour of the iterative form.
OrigC7 == cpc = "done" => ret = IterativeColor(path, TerminalColor)

\* C7, amended: ray_color returns the albedos of the path applied to the
\* terminal colour from the last scatter back to the first, each product
\* rounded to f32; the loop that accumulates the attenuation front to back
\* returns the same colour when the path has at most one scatter or the
\* terminal colour is black.
ThmC7 ==
    cpc = "done" =>
        /\ ret = BackwardColor(path, 1, TerminalColor)
        /\ (Len(path) <= 1 \/ TerminalColor = Black)
              => ret = IterativeColor(path, TerminalColor)

\* two scatters, then a miss: the sky colour is attenuated twice
WitC7 ==
    /\ cpc = "done" /\ Len(path) = 2 /\ term.kind = "miss"
    /\ ret # Black

\* What C8 bounds: a call with depth d makes at most d world queries and d
\* scatter calls and nests at most d calls below itself; the innermost
\* call's depth is d less the nesting.
C8Bounded ==
    cpc # "idle" =>
        LET d == Max(depth0, 0)
        IN  /\ queries <= d
            /\ scatters <= d
            /\ Len(stack) <= d
            /\ depth0 = RenderDepth => Len(stack) <= 50
            /\ cpc = "call" => depth = depth0 - Len(stack)

\* C8: every call of ray_color terminates; the depth decreases by 1 on each
\* recursive call, so a call with depth d makes at most d world queries and
\* d scatter calls, and a primary ray of render (depth 50) nests at most 50
\* calls below the first.
ThmC8 ==
    /\ []C8Bounded
    /\ [][Len(stack') > Len(stack) =>
            /\ Len(stack') = Len(stack) + 1
            /\ depth' = depth - 1]_vars
    /\ <>(cpc = "done")

\* a primary ray of render nested to its full depth
WitC8 ==
    /\ depth0 = RenderDepth /\ Len(stack) = RenderDepth
    /\ queries = RenderDepth /\ cpc = "return"

(***************************************************************************)
(* Properties of hit_world (checked under SpecHit).                        *)
(***************************************************************************)
\* The hits the spheres of the world report inside (t_min, t_max).
HitsInRange ==
    { The(SphereHit(hw.world[i], hw.r, hw.t_min, hw.t_max)) :
        i \in { j \in 1 .. Len(hw.world) :
                  SphereHit(hw.world[j], hw.r, hw.t_min, hw.t_max) # None } }

\* The orders the sphere list can be given in.
Reorderings(w) == { p \in Worlds : Len(p) = Len(w) /\ Ids(p) = Ids(w) }

\* What hit_world has returned.
HitWorldReturn ==
    hpc = "done" =>
        /\ hit_record = None <=> HitsInRange = {}
        /\ hit_record # None =>
              /\ The(hit_record) \in HitsInRange
              /\ \A h \in HitsInRange : The(hit_record).t <= h.t
        /\ (\A g, h \in HitsInRange : g # h => g.t # h.t) =>
              \A p \in Reorderings(hw.world) :
                 hit_world(p, hw.r, hw.t_min, hw.t_max) = hit_record

\* C3: hit_world returns None exactly when no sphere reports a hit inside
\* (t_min, t_max), and otherwise a hit whose t is the least of the spheres'
\* hits inside the range; when these hits have pairwise different t, every
\* permutation of the sphere list returns the same hit; closest_so_far never
\* increases during the iteration.
ThmC3 ==
    /\ []HitWorldReturn
    /\ [][hpc = "loop" => closest_so_far' <= closest_so_far]_vars

\* two spheres are hit at different t, the nearer one first in the list: the
\* farther hit, met later, is turned down
WitC3 ==
    /\ hpc = "done" /\ Len(hw.world) >= 2
    /\ Cardinality(HitsInRange) >= 2
    /\ \A g, h \in HitsInRange : g # h => g.t # h.t
    /\ hit_record # None /\ The(hit_record).sphere = hw.world[1].id

(***************************************************************************)
(* Properties of render and main (checked under SpecMain).                 *)
(***************************************************************************)
\* render has returned to main
Rendered == render_calls = 1 /\ mpc \in { "write", "exited", "panic_write" }

\* C4: one call of render on the buffer of width * height * 3 bytes writes
\* every byte index 0 .. width*height*3 - 1 exactly once: none is left
\* unwritten, none is written twice, none outside the buffer is written.
ThmC4 ==
    /\ mpc \notin { "panic_assert", "panic_store" }
    /\ \A b \in DOMAIN written : written[b] <= 1
    /\ Rendered =>
          /\ DOMAIN written = 0 .. bounds[1] * bounds[2] * 3 - 1
          /\ \A b \in DOMAIN written : written[b] = 1

\* render has returned on a buffer that is not square
WitC4 ==
    /\ Rendered /\ mpc = "write" /\ bounds = <<3, 2>>
    /\ \A b \in 0 .. 17 : written[b] = 1

\* Pixel (x, y) has been stored: it is in a row above the current one, or in
\* the current row to the left of the current pixel.
Stored(x, y) == y < py \/ (y = py /\ x < px)

\* C5: the pixel of column x and row y is stored at byte offsets
\* 3*(y*width + x) + 0, 1, 2, holding its red, green and blue channel in that
\* order; rows are produced in order of increasing y and, within a row,
\* pixels in order of increasing x (at any moment the pixels stored are those
\* before the current one in row-major order).
ThmC5 ==
    mpc \notin { "idle", "start" } =>
        \A x \in 0 .. bounds[1] - 1, y \in 0 .. bounds[2] - 1, k \in 0 .. 2 :
            LET offset == 3 * (y * bounds[1] + x) + k
            IN  /\ offset \in DOMAIN pixels
                /\ IF Stored(x, y)
                   THEN /\ written[offset] = 1
                        /\ pixels[offset] =
                              [x |-> x, y |-> y, channel |-> <<"R", "G", "B">>[k + 1]]
                   ELSE /\ written[offset] = 0
                        /\ pixels[offset] = 0

\* render is in the second row of a 3 x 2 image: the first row is stored, the
\* green byte of pixel (1, 0) at offset 4
WitC5 ==
    /\ mpc = "pixel" /\ bounds = <<3, 2>> /\ py = 1 /\ px = 1
    /\ pixels[4] = [x |-> 1, y |-> 0, channel |-> "G"]
    /\ written[12] = 0

\* main has come to an end (returned or panicked)
Terminated == mpc \in { "exited", "panic_usage", "panic_assert", "panic_store",
                         "panic_write" }

\* C6: started with args.len() # 2, main prints the usage line and returns
\* normally (exit status 0) without calling render or write_image; started
\* with args.len() = 2, render completes on the whole buffer before
\* write_image is called, and write_image is called exactly once.
OrigC6 ==
    /\ args_len # 2 =>
          /\ render_calls = 0 /\ write_calls = 0
          /\ Terminated =>
                mpc = "exited" /\ usage_printed /\ exit_status = Some(0)
    /\ args_len = 2 =>
          /\ write_calls <= 1
          /\ write_calls = 1 =>
                render_calls = 1 /\ \A b \in DOMAIN written : written[b] = 1
          /\ Terminated => write_calls = 1

\* A coordinate <<numerator, denominator>> lies in [0, 1].
InUnit(f) == f[2] > 0 /\ 0 <= f[1] /\ f[1] <= f[2]

\* C9: for every pixel and every pair of random draws in [0, 1), the
\* coordinates u and v that render passes to camera.get_ray lie in [0, 1].
OrigC9 == uv # None => InUnit(The(uv).u) /\ InUnit(The(uv).v)

\* C10: render builds the camera at the origin with viewport height 2.0,
\* focal length 1.0 and viewport width (800/600) * 2.5 = 2.5 (in tenths: 20,
\* 10, 25), whatever the bounds passed to render.
ThmC10 ==
    camera # None =>
        The(camera) = [origin |-> <<0, 0, 0>>, viewport_height |-> 20,
                       viewport_width |-> 25, focal_length |-> 10]

\* the camera of a render whose bounds are taller than wide
WitC10 ==
    /\ camera # None /\ bounds = <<1, 3>>
    /\ The(camera).viewport_width = 25

=============================================================================
